---------------------------- MODULE Spec2Model ----------------------------
(***************************************************************************)
(* A model of the command-line debugger console of                         *)
(* src/src/debugger/cli-debugger.c: the command table, the argument list   *)
(* builder (_DVParse), the dispatcher (_parse), the console loop           *)
(* (_commandLine), the entry announcements (_reportEntry), the SIGINT path  *)
(* (_breakIntoDefault) and tab completion (_tabComplete).                  *)
(*                                                                         *)
(* C strings are sequences of one-character strings; the terminating NUL   *)
(* is the character read one past the end.  A line delivered by el_gets    *)
(* ends in "\n".  32-bit unsigned values are pairs of 16-bit halves.       *)
(***************************************************************************)
EXTENDS Integers, Sequences, FiniteSets, TLC

VARIABLES
  state,      \* debugger->d.state
  pc,         \* where the debugger thread is: "run", "loop" or "done"
  histate,    \* the history list of cliDebugger->histate, oldest first
  nread,      \* lines delivered so far by the line source
  line,       \* what the last el_gets returned (a line, EOF, or NoLine)
  res,        \* what the last call of _parse did (NoRes when none)
  log,        \* ghost: the lines read so far, each with what _parse returned
  undumped,   \* ghost: entry events not yet followed by a status dump
  dumped,     \* ghost: entry events the status dumps of this loop entry followed
  sigint,     \* ghost: SIGINT was delivered since the last step of the thread
  elbuf,      \* line editor: the buffer up to the cursor
  elres,      \* what the last call of _tabComplete did
  evtree,     \* the parse tree handed to _evaluateParseTree (NoTree when none)
  evres,      \* what the last evaluation returned and left in dvTemp.type
  cpu         \* the CPU as the console reads it: execution mode and PC

vars == <<state, pc, histate, nread, line, res, log, undumped, dumped, sigint,
          elbuf, elres, evtree, evres, cpu>>

(***************************************************************************)
(* Bounds of the model.                                                    *)
(***************************************************************************)
\* lines the line source delivers before it reports end-of-input
MaxLines == 3
\* space-separated segments of an argument text
MaxArgs == 3
\* characters typed after a prefix of a command name before the tab key
MaxExtra == 1
\* lines of free choice before the line source repeats one line (SpecHist)
HistVariety == 2
\* operators in a parse tree handed to the evaluator (SpecEval)
MaxOps == 2

(***************************************************************************)
(* Characters, in ASCII order.                                             *)
(***************************************************************************)
NUL == "NUL"
NL == "\n"
Upper == <<"A","B","C","D","E","F","G","H","I","J","K","L","M",
           "N","O","P","Q","R","S","T","U","V","W","X","Y","Z">>
Lower == <<"a","b","c","d","e","f","g","h","i","j","k","l","m",
           "n","o","p","q","r","s","t","u","v","w","x","y","z">>
Digits == <<"0","1","2","3","4","5","6","7","8","9">>
Alphabet == <<NUL, NL, " ", "*", "+", "-", "/">> \o Digits \o <<"=">> \o Upper \o Lower

Range(s) == {s[i] : i \in DOMAIN s}

\* the position of a character in ASCII order
Ord(c) == CHOOSE i \in DOMAIN Alphabet : Alphabet[i] = c

tolower(c) == IF c \in Range(Upper) THEN Alphabet[Ord(c) + Len(Upper)] ELSE c

toupper(c) == IF c \in Range(Lower) THEN Alphabet[Ord(c) - Len(Upper)] ELSE c

ToUpperSeq(s) == [i \in DOMAIN s |-> toupper(s[i])]

\* the character at 1-based position i of a C string: NUL past its end
CharAt(s, i) == IF i <= Len(s) THEN s[i] ELSE NUL

RECURSIVE strncasecmpFrom(_, _, _, _)
strncasecmpFrom(s1, s2, n, i) ==
  IF i > n THEN 0
  ELSE LET c1 == Ord(tolower(CharAt(s1, i)))
           c2 == Ord(tolower(CharAt(s2, i)))
       IN IF c1 # c2 THEN c1 - c2
          ELSE IF CharAt(s1, i) = NUL THEN 0
          ELSE strncasecmpFrom(s1, s2, n, i + 1)

\* strncasecmp(s1, s2, n): the sign is what the callers read
strncasecmp(s1, s2, n) == strncasecmpFrom(s1, s2, n, 1)

(***************************************************************************)
(* The command table.                                                      *)
(***************************************************************************)
\* the null name pointer of the table's terminating entry
NullName == <<"(null)">>

_debuggerCommands == <<
  [name |-> <<"b">>, command |-> "_setBreakpoint"],
  [name |-> <<"b","r","e","a","k">>, command |-> "_setBreakpoint"],
  [name |-> <<"c">>, command |-> "_continue"],
  [name |-> <<"c","o","n","t","i","n","u","e">>, command |-> "_continue"],
  [name |-> <<"d">>, command |-> "_clearBreakpoint"],
  [name |-> <<"d","e","l","e","t","e">>, command |-> "_clearBreakpoint"],
  [name |-> <<"d","i","s">>, command |-> "_disassemble"],
  [name |-> <<"d","i","s","a","s","m">>, command |-> "_disassemble"],
  [name |-> <<"i">>, command |-> "_printStatus"],
  [name |-> <<"i","n","f","o">>, command |-> "_printStatus"],
  [name |-> <<"n">>, command |-> "_next"],
  [name |-> <<"n","e","x","t">>, command |-> "_next"],
  [name |-> <<"p">>, command |-> "_print"],
  [name |-> <<"p","/","x">>, command |-> "_printHex"],
  [name |-> <<"p","r","i","n","t">>, command |-> "_print"],
  [name |-> <<"p","r","i","n","t","/","x">>, command |-> "_printHex"],
  [name |-> <<"q">>, command |-> "_quit"],
  [name |-> <<"q","u","i","t">>, command |-> "_quit"],
  [name |-> <<"r","b">>, command |-> "_readByte"],
  [name |-> <<"r","h">>, command |-> "_readHalfword"],
  [name |-> <<"r","w">>, command |-> "_readWord"],
  [name |-> <<"s","t","a","t","u","s">>, command |-> "_printStatus"],
  [name |-> <<"w">>, command |-> "_setWatchpoint"],
  [name |-> <<"w","a","t","c","h">>, command |-> "_setWatchpoint"],
  [name |-> <<"x">>, command |-> "_breakInto"],
  [name |-> NullName, command |-> "0"] >>

\* _debuggerCommands[i] for a 0-based index i inside the array
Entry(i) == _debuggerCommands[i + 1]

\* whether the 0-based index i is inside the array (sentinel included)
InTable(i) == i >= 0 /\ i < Len(_debuggerCommands)

CommandNames == {_debuggerCommands[i].name : i \in 1..(Len(_debuggerCommands) - 1)}

(***************************************************************************)
(* Unsigned 32-bit values (uint32_t), as [hi, lo] halves of 16 bits.       *)
(***************************************************************************)
W16 == 256 * 256

WSign == 128 * 256

U32(hi, lo) == [hi |-> hi, lo |-> lo]

\* a small natural number n < 2^16 as a 32-bit value
U(n) == U32(0, n)

u32add(a, b) ==
  LET lo == a.lo + b.lo IN
  U32((a.hi + b.hi + (lo \div W16)) % W16, lo % W16)

u32neg(a) == u32add(U32(W16 - 1 - a.hi, W16 - 1 - a.lo), U(1))

u32sub(a, b) == u32add(a, u32neg(b))

\* the 32-bit product of two 16-bit numbers, by 8-bit pieces
Mul16(x, y) ==
  LET x1 == x \div 256
      x0 == x % 256
      y1 == y \div 256
      y0 == y % 256
      p0 == x0 * y0
      p1 == x1 * y0 + x0 * y1
      p2 == x1 * y1
      lo == p0 + (p1 % 256) * 256
  IN U32((p2 + (p1 \div 256) + (lo \div W16)) % W16, lo % W16)

u32mul(a, b) ==
  LET ll == Mul16(a.lo, b.lo)
      cross == (Mul16(a.hi, b.lo).lo + Mul16(a.lo, b.hi).lo) % W16
  IN U32((ll.hi + cross) % W16, ll.lo)

u32geq(a, b) == a.hi > b.hi \/ (a.hi = b.hi /\ a.lo >= b.lo)

\* bit i (0..31) of a
u32bit(a, i) ==
  IF i >= 16 THEN (a.hi \div (2 ^ (i - 16))) % 2 ELSE (a.lo \div (2 ^ i)) % 2

\* one step of restoring long division of a by b < 2^31, at bit i: s.q the
\* quotient bits so far, s.r the running remainder (r < b, so 2r + 1 < 2^32)
DivBit(a, b, i, s) ==
  LET r2 == u32add(u32add(s.r, s.r), U(u32bit(a, i)))
      q2 == u32add(s.q, s.q)
  IN IF u32geq(r2, b)
     THEN [q |-> u32add(q2, U(1)), r |-> u32sub(r2, b)]
     ELSE [q |-> q2, r |-> r2]

\* the steps from bit i down to bit 0; each step's result is bound as a
\* value before the next step reads it
RECURSIVE u32divFrom(_, _, _, _)
u32divFrom(a, b, i, s) ==
  IF i < 0 THEN s.q
  ELSE CHOOSE q \in {u32divFrom(a, b, i - 1, t) : t \in {DivBit(a, b, i, s)}} : TRUE

\* truncating division, b # 0
u32div(a, b) ==
  IF b.hi >= WSign THEN (IF u32geq(a, b) THEN U(1) ELSE U(0))
  ELSE u32divFrom(a, b, 31, [q |-> U(0), r |-> U(0)])

Zero == U(0)

(***************************************************************************)
(* The expression engine.  The lexer and the parser (parser.h) are not in  *)
(* the source tree; they are modelled from the specification.  The         *)
(* evaluator is _evaluateParseTree and _performOperation.                  *)
(***************************************************************************)
Operators == {"=", "+", "-", "*", "/"}

Operation(c) ==
  CASE c = "=" -> "OP_ASSIGN"
    [] c = "+" -> "OP_ADD"
    [] c = "-" -> "OP_SUBTRACT"
    [] c = "*" -> "OP_MULTIPLY"
    [] c = "/" -> "OP_DIVIDE"

UintToken(v) == [type |-> "TOKEN_UINT_TYPE", uintValue |-> v, operatorValue |-> "none"]
OperatorToken(c) == [type |-> "TOKEN_OPERATOR_TYPE", uintValue |-> Zero, operatorValue |-> Operation(c)]
IdentifierToken == [type |-> "TOKEN_IDENTIFIER_TYPE", uintValue |-> Zero, operatorValue |-> "none"]
ErrorToken == [type |-> "TOKEN_ERROR_TYPE", uintValue |-> Zero, operatorValue |-> "none"]

IsDigit(c) == c \in Range(Digits)
IsLetter(c) == c \in Range(Upper) \cup Range(Lower)
IsHexDigit(c) == IsDigit(c) \/ tolower(c) \in {"a", "b", "c", "d", "e", "f"}

DigitValue(c) == Ord(c) - Ord("0")
HexValue(c) == IF IsDigit(c) THEN DigitValue(c) ELSE 10 + Ord(tolower(c)) - Ord("a")

\* The token a lexer state yields when the text of the operand ends.
LexClose(lexstate, next) ==
  CASE lexstate \in {"DECIMAL", "PREFIX", "HEX"} -> <<UintToken(next)>>
    [] lexstate = "IDENTIFIER" -> <<IdentifierToken>>
    [] OTHER -> <<ErrorToken>>

\* The lexer, left to right from position i of the string: adjusted counts
\* the characters consumed, lv the tokens so far.  It stops at the end of
\* the length given, at a space, or at the first character no token allows.
RECURSIVE LexFrom(_, _, _, _, _, _, _)
LexFrom(string, length, i, adjusted, lexstate, next, lv) ==
  LET c == CharAt(string, i) IN
  IF lexstate = "ERROR" THEN [adjusted |-> adjusted, lv |-> <<ErrorToken>>]
  ELSE IF adjusted >= length \/ c = NUL \/ c = " "
  THEN IF lexstate = "HEXSTART"
       THEN \* "0x" and no digit: the numeral needs a character more
            [adjusted |-> length + 1, lv |-> <<>>]
       ELSE [adjusted |-> adjusted, lv |-> lv \o LexClose(lexstate, next)]
  ELSE LET go(st, nx, toks) == LexFrom(string, length, i + 1, adjusted + 1, st, nx, toks)
           operand == lexstate \in {"DECIMAL", "PREFIX", "HEX", "IDENTIFIER"}
       IN CASE operand /\ c \in Operators ->
                 go("ROOT", Zero, lv \o LexClose(lexstate, next) \o <<OperatorToken(c)>>)
            [] lexstate = "ROOT" /\ c = "0" -> go("PREFIX", Zero, lv)
            [] lexstate = "ROOT" /\ IsDigit(c) /\ c # "0" -> go("DECIMAL", U(DigitValue(c)), lv)
            [] lexstate = "ROOT" /\ IsLetter(c) -> go("IDENTIFIER", Zero, lv)
            [] lexstate = "PREFIX" /\ tolower(c) = "x" -> go("HEXSTART", Zero, lv)
            [] lexstate \in {"PREFIX", "DECIMAL"} /\ IsDigit(c) ->
                 go("DECIMAL", u32add(u32mul(next, U(10)), U(DigitValue(c))), lv)
            [] lexstate \in {"HEXSTART", "HEX"} /\ IsHexDigit(c) ->
                 go("HEX", u32add(u32mul(next, U(16)), U(HexValue(c))), lv)
            [] lexstate = "IDENTIFIER" /\ (IsLetter(c) \/ IsDigit(c)) -> go("IDENTIFIER", Zero, lv)
            [] OTHER -> go("ERROR", Zero, lv)

lexExpression(string, length) ==
  IF length < 1 THEN [adjusted |-> 0, lv |-> <<>>]
  ELSE LexFrom(string, length, 1, 0, "ROOT", Zero, <<>>)

Precedence(op) ==
  CASE op = "OP_ASSIGN" -> 1
    [] op \in {"OP_ADD", "OP_SUBTRACT"} -> 2
    [] op \in {"OP_MULTIPLY", "OP_DIVIDE"} -> 3

Leaf(token) == [token |-> token, lhs |-> <<>>, rhs |-> <<>>]

\* operand, operator, operand, ... , operand: what the grammar accepts
WellFormed(lv) ==
  /\ Len(lv) % 2 = 1
  /\ \A i \in DOMAIN lv :
       IF i % 2 = 1 THEN lv[i].type \in {"TOKEN_UINT_TYPE", "TOKEN_IDENTIFIER_TYPE"}
       ELSE lv[i].type = "TOKEN_OPERATOR_TYPE"

\* the tree of a well-formed token list: the operators bind left to right
\* within a precedence level, so the root is the last operator of the
\* lowest level present
RECURSIVE ParseTokens(_)
ParseTokens(lv) ==
  IF Len(lv) = 1 THEN Leaf(lv[1])
  ELSE LET ops == {i \in DOMAIN lv : i % 2 = 0}
           low == CHOOSE p \in {Precedence(lv[i].operatorValue) : i \in ops} :
                    \A i \in ops : Precedence(lv[i].operatorValue) >= p
           at == CHOOSE i \in ops :
                    /\ Precedence(lv[i].operatorValue) = low
                    /\ \A j \in ops : Precedence(lv[j].operatorValue) = low => j <= i
       IN [token |-> lv[at],
           lhs |-> ParseTokens(SubSeq(lv, 1, at - 1)),
           rhs |-> ParseTokens(SubSeq(lv, at + 1, Len(lv)))]

parseLexedExpression(lv) ==
  IF WellFormed(lv) THEN ParseTokens(lv) ELSE Leaf(ErrorToken)

\* subtraction with its operands exchanged
_performOperationSwapped(operation, current, next, dvtype) ==
  CASE operation = "OP_ASSIGN" -> [value |-> next, type |-> dvtype]
    [] operation = "OP_ADD" -> [value |-> u32add(current, next), type |-> dvtype]
    [] operation = "OP_SUBTRACT" -> [value |-> u32sub(next, current), type |-> dvtype]
    [] operation = "OP_MULTIPLY" -> [value |-> u32mul(current, next), type |-> dvtype]
    [] operation = "OP_DIVIDE" ->
         IF next # Zero THEN [value |-> u32div(current, next), type |-> dvtype]
         ELSE [value |-> Zero, type |-> "DV_ERROR_TYPE"]

\* an operation that succeeds marks the result good
_performOperationClears(operation, current, next, dvtype) ==
  CASE operation = "OP_ASSIGN" -> [value |-> next, type |-> "DV_INT_TYPE"]
    [] operation = "OP_ADD" -> [value |-> u32add(current, next), type |-> "DV_INT_TYPE"]
    [] operation = "OP_SUBTRACT" -> [value |-> u32sub(current, next), type |-> "DV_INT_TYPE"]
    [] operation = "OP_MULTIPLY" -> [value |-> u32mul(current, next), type |-> "DV_INT_TYPE"]
    [] operation = "OP_DIVIDE" ->
         IF next # Zero THEN [value |-> u32div(current, next), type |-> "DV_INT_TYPE"]
         ELSE [value |-> Zero, type |-> "DV_ERROR_TYPE"]

\* _performOperation: the value returned and the type left in *dv
_performOperation(operation, current, next, dvtype) ==
  CASE operation = "OP_ASSIGN" -> [value |-> next, type |-> dvtype]
    [] operation = "OP_ADD" -> [value |-> u32add(current, next), type |-> dvtype]
    [] operation = "OP_SUBTRACT" -> [value |-> u32sub(current, next), type |-> dvtype]
    [] operation = "OP_MULTIPLY" -> [value |-> u32mul(current, next), type |-> dvtype]
    [] operation = "OP_DIVIDE" ->
         IF next # Zero THEN [value |-> u32div(current, next), type |-> dvtype]
         ELSE [value |-> Zero, type |-> "DV_ERROR_TYPE"]

\* _evaluateParseTree: the value returned and the type left in *dv, which
\* both operand evaluations and the operation share
RECURSIVE _evaluateParseTree(_, _)
_evaluateParseTree(tree, dvtype) ==
  CASE tree.token.type = "TOKEN_UINT_TYPE" -> [value |-> tree.token.uintValue, type |-> dvtype]
    [] tree.token.type = "TOKEN_OPERATOR_TYPE" ->
         LET l == _evaluateParseTree(tree.lhs, dvtype)
             r == _evaluateParseTree(tree.rhs, l.type)
         IN _performOperation(tree.token.operatorValue, l.value, r.value, r.type)
    [] OTHER -> [value |-> Zero, type |-> "DV_ERROR_TYPE"]

\* _DVParse after parseLexedExpression: an ERROR token at the root marks
\* dvTemp, any other tree is evaluated into dvTemp, whose type was type0
EvaluateTree(tree, type0) ==
  IF tree.token.type = "TOKEN_ERROR_TYPE"
  THEN [value |-> Zero, type |-> "DV_ERROR_TYPE"]
  ELSE _evaluateParseTree(tree, type0)

(***************************************************************************)
(* The argument list builder.  A DebugVector list is a sequence of nodes   *)
(* [type, intValue]; the null list is the empty sequence.                  *)
(***************************************************************************)
DVNode(type, value) == [type |-> type, intValue |-> value]

\* dv->next && dv->next->type == DV_ERROR_TYPE
PoisonedNever(next) == FALSE

Poisoned(next) == next # <<>> /\ next[1].type = "DV_ERROR_TYPE"

\* _DVParse on the text from the pointer string on, of which length
\* characters belong to the argument text
RECURSIVE _DVParse(_, _)
_DVParse(string, length) ==
  IF length < 1 THEN <<>>
  ELSE LET lx == lexExpression(string, length)
           adjusted == lx.adjusted
           type0 == IF adjusted > length THEN "DV_ERROR_TYPE" ELSE "DV_INT_TYPE"
           tree == parseLexedExpression(lx.lv)
           dvTemp == EvaluateTree(tree, type0)
       IN IF dvTemp.type = "DV_ERROR_TYPE"
          THEN <<DVNode("DV_ERROR_TYPE", Zero)>>
          ELSE IF CharAt(string, adjusted + 1) = " "
          THEN LET next == _DVParse(SubSeq(string, adjusted + 2, Len(string)),
                                    length - adjusted - 1)
               IN IF Poisoned(next)
                  THEN <<DVNode("DV_ERROR_TYPE", dvTemp.value)>> \o next
                  ELSE <<DVNode("DV_INT_TYPE", dvTemp.value)>> \o next
          ELSE <<DVNode("DV_INT_TYPE", dvTemp.value)>>

(***************************************************************************)
(* The command handlers.  Each yields the run state it leaves, the lines   *)
(* it prints and the calls it makes to the CPU, memory and breakpoint      *)
(* services.                                                               *)
(***************************************************************************)
ERROR_MISSING_ARGS == "Arguments missing"

\* a line printed (printf) and a call made outside this file, as events
Out(k, v) == [kind |-> "print", k |-> k, v |-> v]
Call(op, address) == [kind |-> "call", k |-> op, v |-> address]

IsPrint(e) == e.kind = "print"
IsCall(e) == e.kind = "call"

\* the lines printed and the calls made in a sequence of events, in order
Prints(trace) == SelectSeq(trace, IsPrint)
Calls(trace) == SelectSeq(trace, IsCall)

\* what a handler does: the run state it leaves and its events in order
Effect(st, trace) == [state |-> st, trace |-> trace]

\* !dv || dv->type != DV_INT_TYPE
NoIntHead(dv) == dv = <<>> \/ dv[1].type # "DV_INT_TYPE"

Values(dv) == [i \in DOMAIN dv |-> dv[i].intValue]

\* the full status dump: four rows of registers, the PSR, the current line
StatusDump == Out("status", <<>>)

\* _handleDeath: what the raised SIGTRAP runs when no debugger takes it
_handleDeath == <<Out("No debugger attached!", <<>>)>>

\* the previous handler is put back before the trap is raised
_breakIntoRestoresEarly(st, dv) ==
  Effect(st, <<Call("sigaction", <<"SIGTRAP", "_handleDeath", "osa">>),
               Call("sigaction", <<"SIGTRAP", "osa", "0">>),
               Call("kill", <<"SIGTRAP">>)>>)

\* sigaction(SIGTRAP, &sa, &osa) with sa.sa_handler = _handleDeath, then
\* pthread_kill(pthread_self(), SIGTRAP) or kill(getpid(), SIGTRAP), then
\* sigaction(SIGTRAP, &osa, 0)
_breakInto(st, dv) ==
  Effect(st, <<Call("sigaction", <<"SIGTRAP", "_handleDeath", "osa">>),
               Call("kill", <<"SIGTRAP">>)>>
             \o _handleDeath
             \o <<Call("sigaction", <<"SIGTRAP", "osa", "0">>)>>)

\* a handler that leaves the state as it is
_continueStays(st, dv) == Effect(st, <<>>)

_continue(st, dv) == Effect("DEBUGGER_RUNNING", <<>>)

\* a handler that prints nothing
_printStatusSilent(st, dv) == Effect(st, <<>>)

_printStatus(st, dv) == Effect(st, <<StatusDump>>)

\* the status printed before the step
_nextPrintsFirst(st, dv) == Effect(st, _printStatus(st, <<>>).trace \o <<Call("ARMRun", Zero)>>)

_next(st, dv) == Effect(st, <<Call("ARMRun", Zero)>> \o _printStatus(st, <<>>).trace)

_disassemble(st, cpustate, dv) ==
  LET wordSize == IF cpustate.executionMode = "MODE_ARM" THEN U(4) ELSE U(2)
      address == IF NoIntHead(dv) THEN u32sub(cpustate.pc, wordSize) ELSE dv[1].intValue
      dv2 == IF NoIntHead(dv) THEN dv ELSE Tail(dv)
      size == IF NoIntHead(dv2) THEN U(1) ELSE dv2[1].intValue
      \* int size: the loop body runs for i = 0 .. size - 1, size signed
      lines == IF size.hi >= WSign THEN Zero ELSE size
  IN Effect(st, <<Out("disassembly", <<address, lines, wordSize>>)>>)

_print(st, dv) == Effect(st, <<Out("%u", Values(dv))>>)

_printHex(st, dv) == Effect(st, <<Out("0x%08X", Values(dv))>>)

_quit(st, dv) == Effect("DEBUGGER_SHUTDOWN", <<>>)

\* the shape shared by the six handlers that take an address
AddressCommand(st, dv, op, format) ==
  IF NoIntHead(dv) THEN Effect(st, <<Out(ERROR_MISSING_ARGS, <<>>)>>)
  ELSE Effect(st, <<Call(op, dv[1].intValue)>> \o format)

_readByte(st, dv) == AddressCommand(st, dv, "loadU8", <<Out("0x%02X", <<>>)>>)

_readHalfword(st, dv) == AddressCommand(st, dv, "loadU16", <<Out("0x%04X", <<>>)>>)

_readWord(st, dv) == AddressCommand(st, dv, "load32", <<Out("0x%08X", <<>>)>>)

_setBreakpoint(st, dv) == AddressCommand(st, dv, "ARMDebuggerSetBreakpoint", <<>>)

\* the body of _setBreakpoint under the name of _clearBreakpoint
_clearBreakpointSets(st, dv) == AddressCommand(st, dv, "ARMDebuggerSetBreakpoint", <<>>)

_clearBreakpoint(st, dv) == AddressCommand(st, dv, "ARMDebuggerClearBreakpoint", <<>>)

_setWatchpoint(st, dv) == AddressCommand(st, dv, "ARMDebuggerSetWatchpoint", <<>>)

\* _debuggerCommands[i].command(debugger, dv)
Invoke(command, st, cpustate, dv) ==
  CASE command = "_breakInto" -> _breakInto(st, dv)
    [] command = "_continue" -> _continue(st, dv)
    [] command = "_disassemble" -> _disassemble(st, cpustate, dv)
    [] command = "_next" -> _next(st, dv)
    [] command = "_print" -> _print(st, dv)
    [] command = "_printHex" -> _printHex(st, dv)
    [] command = "_printStatus" -> _printStatus(st, dv)
    [] command = "_quit" -> _quit(st, dv)
    [] command = "_readByte" -> _readByte(st, dv)
    [] command = "_readHalfword" -> _readHalfword(st, dv)
    [] command = "_readWord" -> _readWord(st, dv)
    [] command = "_setBreakpoint" -> _setBreakpoint(st, dv)
    [] command = "_clearBreakpoint" -> _clearBreakpoint(st, dv)
    [] command = "_setWatchpoint" -> _setWatchpoint(st, dv)

(***************************************************************************)
(* The dispatcher.                                                         *)
(***************************************************************************)
\* strchr(s, c): the 1-based position of the first c, 0 when there is none
strchr(s, c) ==
  IF \E i \in DOMAIN s : s[i] = c
  THEN CHOOSE i \in DOMAIN s : s[i] = c /\ \A j \in 1..(i - 1) : s[j] # c
  ELSE 0

\* whether table entry i matches the verb: the test of the lookup loop
NameMatchesPrefix(name, ln, cmdLength) == strncasecmp(name, ln, cmdLength) = 0

NameMatches(name, ln, cmdLength) ==
  Len(name) = cmdLength /\ strncasecmp(name, ln, cmdLength) = 0

\* the lookup loop of _parse from entry i: the index of the first entry
\* that matches, -1 when the null name is reached
RECURSIVE Lookup(_, _, _)
Lookup(ln, cmdLength, i) ==
  LET name == Entry(i).name IN
  IF name = NullName THEN -1
  ELSE IF NameMatches(name, ln, cmdLength) THEN i
  ELSE Lookup(ln, cmdLength, i + 1)

\* an argument text of no characters is an error
ParseArgsNeedsText(ln, count) ==
  LET firstSpace == strchr(ln, " ") IN
  IF firstSpace > 0
  THEN IF count - (firstSpace - 1) - 1 < 1
       THEN <<DVNode("DV_ERROR_TYPE", Zero)>>
       ELSE _DVParse(SubSeq(ln, firstSpace + 1, Len(ln)), count - (firstSpace - 1) - 1)
  ELSE <<>>

\* the argument list _parse builds for a line
ParseArgs(ln, count) ==
  LET firstSpace == strchr(ln, " ") IN
  IF firstSpace > 0
  THEN _DVParse(SubSeq(ln, firstSpace + 1, Len(ln)), count - (firstSpace - 1) - 1)
  ELSE <<>>

\* the length of the verb
CmdLength(ln, count) ==
  LET firstSpace == strchr(ln, " ") IN
  IF firstSpace > 0 THEN firstSpace - 1 ELSE count

\* The nodes of a list are numbered from its head: node i is the one the
\* i-th nested call of _DVParse allocates.
Malloc(i) == [kind |-> "malloc", k |-> "DebugVector", v |-> i]
Free(i) == [kind |-> "free", k |-> "DebugVector", v |-> i]

\* the handler is entered, the handler has returned
Enter(command) == [kind |-> "invoke", k |-> command, v |-> <<>>]
Leave(command) == [kind |-> "return", k |-> command, v |-> <<>>]

\* malloc(sizeof(struct DebugVector)) in each call of _DVParse that builds
\* a node, outermost first
Mallocs(dv) == [i \in 1..Len(dv) |-> Malloc(i)]

\* only the head is freed
_DVFreeHeadOnly(dv) == [i \in 1..(IF dv = <<>> THEN 0 ELSE 1) |-> Free(i)]

\* _DVFree: follows next from the head and frees each node
_DVFree(dv) == [i \in 1..Len(dv) |-> Free(i)]

\* what _parse did: ret the value returned, command the handler invoked
\* ("none" when none was), dv the list handed to it, state the run state
\* left, trace every event in order, out and calls the lines printed and
\* the calls made outside this file
Did(ret, command, dv, st, trace) ==
  [ret |-> ret, command |-> command, dv |-> dv, state |-> st, trace |-> trace,
   out |-> Prints(trace), calls |-> Calls(trace)]

\* the lookup and the handler before the test of the argument list
_parseLookupFirst(st, cpustate, ln, count) ==
  LET dv == ParseArgs(ln, count)
      i == Lookup(ln, CmdLength(ln, count), 0)
  IN IF i >= 0
     THEN LET command == Entry(i).command
              e == Invoke(command, st, cpustate, dv)
          IN IF dv # <<>> /\ dv[1].type = "DV_ERROR_TYPE"
             THEN Did(0, "none", <<>>, e.state,
                      Mallocs(dv) \o <<Out("Parse error", <<>>)>> \o _DVFree(dv))
             ELSE Did(1, command, dv, e.state,
                      Mallocs(dv) \o <<Enter(command)>> \o e.trace \o <<Leave(command)>>
                      \o _DVFree(dv))
     ELSE Did(0, "none", <<>>, st,
              Mallocs(dv) \o _DVFree(dv) \o <<Out("Command not found", <<>>)>>)

\* _parse(debugger, line, count)
_parse(st, cpustate, ln, count) ==
  LET dv == ParseArgs(ln, count)
      cmdLength == CmdLength(ln, count)
      i == Lookup(ln, cmdLength, 0)
  IN IF dv # <<>> /\ dv[1].type = "DV_ERROR_TYPE"
     THEN Did(0, "none", <<>>, st,
              Mallocs(dv) \o <<Out("Parse error", <<>>)>> \o _DVFree(dv))
     ELSE IF i >= 0
     THEN LET command == Entry(i).command
              e == Invoke(command, st, cpustate, dv)
          IN Did(1, command, dv, e.state,
                 Mallocs(dv) \o <<Enter(command)>> \o e.trace \o <<Leave(command)>>
                 \o _DVFree(dv))
     ELSE Did(0, "none", <<>>, st,
              Mallocs(dv) \o _DVFree(dv) \o <<Out("Command not found", <<>>)>>)

NoRes == Did(-1, "none", <<>>, "none", <<>>)

(***************************************************************************)
(* Input lines.  An argument text is 1..MaxArgs segments joined by single  *)
(* spaces; an empty segment gives a trailing or a doubled space.           *)
(***************************************************************************)
SegTexts ==
  { <<"1">>, <<"3">>, <<"2", "/", "0">>, <<"a">>, <<>>, <<"0", "x", "1", "F">>,
    <<"0", "-", "1">>, <<"1", "+">>, <<"0", "x">>, <<"6", "/", "2", "*", "3">> }

RECURSIVE ArgTextsOf(_)
ArgTextsOf(n) ==
  IF n = 1 THEN SegTexts
  ELSE LET shorter == ArgTextsOf(n - 1) IN
       shorter \cup {a \o <<" ">> \o s : a \in shorter, s \in SegTexts}

ArgTexts == ArgTextsOf(MaxArgs)

ProperPrefixes == UNION {{SubSeq(nm, 1, k) : k \in 0..(Len(nm) - 1)} : nm \in CommandNames}

Verbs ==
  CommandNames \cup {ToUpperSeq(nm) : nm \in CommandNames} \cup ProperPrefixes
  \cup { <<"f", "o", "o">>, <<"P", "r", "i", "n", "t">>, <<"p", "r", "i", "n", "t", "x">>,
         <<"1">>, <<"x", "a">> }

BlankLine == <<NL>>

\* the verbs tried with every argument text
ArgVerbs ==
  { <<"p", "r", "i", "n", "t">>, <<"p">>, <<"P", "R", "I", "N", "T">>, <<"p", "r">>, <<>>,
    <<"f", "o", "o">>, <<"b">>, <<"b", "r", "e", "a", "k">>, <<"c">>, <<"q", "u", "i", "t">>,
    <<"d", "i", "s">>, <<"r", "b">>, <<"n">>, <<"p", "/", "x">> }

\* the verbs of the handlers that take an address, tried with a few
\* argument texts of one to three values
AddressVerbs ==
  { <<"b">>, <<"b", "r", "e", "a", "k">>, <<"d">>, <<"d", "e", "l", "e", "t", "e">>,
    <<"w">>, <<"w", "a", "t", "c", "h">>, <<"r", "b">>, <<"r", "h">>, <<"r", "w">>,
    <<"D", "e", "l", "e", "t", "e">>, <<"R", "W">> }

AddressTexts ==
  { <<"1">>, <<"0", "x", "1", "F", " ", "3">>, <<"0", "-", "1", " ", "1", " ", "3">> }

ParseLines ==
  {v \o <<NL>> : v \in Verbs \ {<<>>}}
  \cup {v \o <<" ">> \o <<NL>> : v \in Verbs}
  \cup {v \o <<" ">> \o a \o <<NL>> : v \in ArgVerbs, a \in ArgTexts}
  \cup {v \o <<" ">> \o a \o <<NL>> : v \in AddressVerbs, a \in AddressTexts}

(***************************************************************************)
(* Tab completion.                                                         *)
(***************************************************************************)
\* the inner for loop of _tabComplete at prefix length len, from entry cmd:
\* it ends on a break (cmp = 0), a return (cmp > 0) or the null name
RECURSIVE TabScan(_, _, _)
TabScan(buffer, len, cmd) ==
  LET name == Entry(cmd).name IN
  IF name = NullName THEN [cmd |-> cmd, how |-> "end"]
  ELSE LET cmp == strncasecmp(name, buffer, len) IN
       IF cmp > 0 THEN [cmd |-> cmd, how |-> "return"]
       ELSE IF cmp = 0 THEN [cmd |-> cmd, how |-> "break"]
       ELSE TabScan(buffer, len, cmd + 1)

\* the outer for loop: len runs from 0 to the cursor position n inclusive
RECURSIVE TabNarrow(_, _, _, _)
TabNarrow(buffer, n, len, cmd) ==
  IF len > n THEN [cmd |-> cmd, how |-> "done"]
  ELSE LET r == TabScan(buffer, len, cmd) IN
       IF r.how = "return" THEN r
       ELSE TabNarrow(buffer, n, len + 1, r.cmd)

\* the test after the loops: the entry after cmd has a name and shares the
\* first len - 1 characters with the buffer
NextSharesOneTooMany(buffer, cmd, len) ==
  Entry(cmd + 1).name # NullName /\ strncasecmp(Entry(cmd + 1).name, buffer, len) = 0

NextShares(buffer, cmd, len) ==
  Entry(cmd + 1).name # NullName /\ strncasecmp(Entry(cmd + 1).name, buffer, len - 1) = 0

\* The outcomes of _tabComplete on the buffer up to the cursor.  ret is the
\* value returned, inserted the text given to el_insertstr, oob whether the
\* table was read past its terminating entry.  Reading past the array is
\* undefined: the word read may compare equal to the prefix (CC_ERROR) or
\* not, and then the null name is advanced and handed to el_insertstr.
_tabComplete(buffer) ==
  LET n == Len(buffer)
      r == TabNarrow(buffer, n, 0, 0)
      len == n + 1
  IN IF r.how = "return"
     THEN {[ret |-> "CC_ERROR", inserted |-> <<>>, oob |-> FALSE]}
     ELSE IF ~InTable(r.cmd + 1)
     THEN {[ret |-> "CC_ERROR", inserted |-> <<>>, oob |-> TRUE],
           [ret |-> "CRASH", inserted |-> <<>>, oob |-> TRUE]}
     ELSE IF NextShares(buffer, r.cmd, len)
     THEN {[ret |-> "CC_ERROR", inserted |-> <<>>, oob |-> FALSE]}
     ELSE LET name == Entry(r.cmd).name IN
          {[ret |-> "CC_REDISPLAY",
            inserted |-> SubSeq(name, len, Len(name)) \o <<" ">>,
            oob |-> FALSE]}

(***************************************************************************)
(* Inputs of tab completion: every prefix of a command name, followed by   *)
(* at most MaxExtra further characters, in lower and in upper case.        *)
(***************************************************************************)
TabChars == {"a", "e", "x", "z", "b", "/", " ", "r"}

RECURSIVE SeqsUpTo(_, _)
SeqsUpTo(S, n) ==
  IF n = 0 THEN {<<>>}
  ELSE LET shorter == SeqsUpTo(S, n - 1) IN
       shorter \cup {s \o <<c>> : s \in shorter, c \in S}

TabPrefixes ==
  LET lower == UNION {{SubSeq(nm, 1, k) \o t :
                         k \in 0..Len(nm), t \in SeqsUpTo(TabChars, MaxExtra)} :
                       nm \in CommandNames}
  IN lower \cup {ToUpperSeq(p) : p \in lower}

NoTab == [ret |-> "none", inserted |-> <<>>, oob |-> FALSE]

\* no tree was built, nothing was evaluated
NoTree == <<>>
NoEval == [value |-> Zero, type |-> "none"]

(***************************************************************************)
(* The session: run states, entry events, the history list.                *)
(***************************************************************************)
PAUSED == "DEBUGGER_PAUSED"
RUNNING == "DEBUGGER_RUNNING"
EXITING == "DEBUGGER_EXITING"
SHUTDOWN == "DEBUGGER_SHUTDOWN"
DETACHED == "DETACHED"

\* el_gets returning a null pointer
EndOfInput == <<"(null)">>

\* nothing read yet
NoLine == <<>>

\* history(histate, &ev, H_SETSIZE, 200)
HistSize == 200

\* history(histate, &ev, H_ENTER, line): the list keeps the newest HistSize
HistEnter(h, ln) ==
  LET h2 == Append(h, ln) IN
  IF Len(h2) > HistSize THEN Tail(h2) ELSE h2

\* history(histate, &ev, H_FIRST): the newest entry; callers test h # <<>>
HistFirst(h) == h[Len(h)]

CpuStates ==
  { [executionMode |-> "MODE_ARM", pc |-> U(8)],
    [executionMode |-> "MODE_THUMB", pc |-> U(2)] }

\* _reportEntry: the lines printed for an entry reason
_reportEntry(reason) ==
  CASE reason \in {"DEBUGGER_ENTER_MANUAL", "DEBUGGER_ENTER_ATTACHED"} -> <<>>
    [] reason = "DEBUGGER_ENTER_BREAKPOINT" -> <<"Hit breakpoint">>
    [] reason = "DEBUGGER_ENTER_WATCHPOINT" -> <<"Hit watchpoint">>
    [] reason = "DEBUGGER_ENTER_ILLEGAL_OP" -> <<"Hit illegal opcode">>

\* ARMDebuggerEnter(debugger, reason): the state becomes PAUSED and the
\* entered callback (_reportEntry) announces the reason
ARMDebuggerEnter(reason) ==
  /\ state' = PAUSED
  /\ undumped' = undumped \cup
       {[reason |-> reason, during |-> pc, out |-> _reportEntry(reason)]}

\* whether a list of printed lines holds a full status dump
Dumps(out) == \E i \in DOMAIN out : out[i] = StatusDump

(***************************************************************************)
(* The console: the debugger thread and the interrupt.                     *)
(***************************************************************************)
ConsoleLines ==
  { <<"p", " ", "1", NL>>, <<"b", NL>>, <<"b", " ", "2", NL>>,
    <<"p", " ", "1", "/", "0", NL>>, <<"f", "o", "o", NL>>,
    <<"c", NL>>, <<"q", NL>>, <<"n", NL>>,
    <<"c", " ", "1", "/", "0", NL>>, <<"q", " ", "a", NL>>,
    <<"N", "e", "x", "t", " ", "3", NL>>, BlankLine }

InitCommon ==
  /\ histate = <<>>
  /\ nread = 0
  /\ res = NoRes
  /\ log = <<>>
  /\ undumped = {}
  /\ dumped = {}
  /\ sigint = FALSE
  /\ elres = NoTab
  /\ evres = NoEval
  /\ cpu \in CpuStates

Init ==
  /\ InitCommon
  /\ line = NoLine
  /\ elbuf = <<>>
  /\ evtree = NoTree
  /\ state = DETACHED
  /\ pc = "run"

\* the debugger is attached to the CPU
Attach ==
  /\ pc = "run" /\ state = DETACHED
  /\ ARMDebuggerEnter("DEBUGGER_ENTER_ATTACHED")
  /\ UNCHANGED <<pc, histate, nread, line, res, log, dumped, sigint, elbuf, elres, evtree, evres, cpu>>

\* the running CPU hits a breakpoint, a watchpoint or an illegal opcode
CpuEntry ==
  /\ pc = "run" /\ state = RUNNING
  /\ \E reason \in {"DEBUGGER_ENTER_BREAKPOINT", "DEBUGGER_ENTER_WATCHPOINT",
                    "DEBUGGER_ENTER_ILLEGAL_OP"} : ARMDebuggerEnter(reason)
  /\ UNCHANGED <<pc, histate, nread, line, res, log, dumped, sigint, elbuf, elres, evtree, evres, cpu>>

\* SIGINT: the handler installed by _cliDebuggerInit, at any point
_breakIntoDefault ==
  /\ pc # "done"
  /\ ARMDebuggerEnter("DEBUGGER_ENTER_MANUAL")
  /\ sigint' = TRUE
  /\ UNCHANGED <<pc, histate, nread, line, res, log, dumped, elbuf, elres, evtree, evres, cpu>>

\* the run loop finds the state PAUSED and calls the paused callback:
\* _commandLine prints the status and reaches its loop
_commandLineEnter ==
  /\ pc = "run" /\ state = PAUSED
  /\ pc' = "loop"
  /\ LET shown == Dumps(_printStatus(state, <<>>).trace) IN
     /\ undumped' = IF shown THEN {} ELSE undumped
     /\ dumped' = IF shown THEN undumped ELSE {}
  /\ line' = NoLine
  /\ res' = NoRes
  /\ sigint' = FALSE
  /\ UNCHANGED <<state, histate, nread, log, elbuf, elres, evtree, evres, cpu>>

\* every dispatched line is entered
RecordedAlways(ret) == TRUE

\* whether _commandLine enters history for a line _parse returned ret for
Recorded(ret) == ret # 0

\* the oldest entry instead of the newest
ReplayedOldest(h) == h[1]

\* what a blank line hands to _parse
Replayed(h) == HistFirst(h)

\* the end of input leaves the state as it is
EofStateStays == PAUSED

\* the state _commandLine leaves when el_gets returns a null pointer
EofState == EXITING

\* one turn of the loop of _commandLine: the loop test found PAUSED, el_gets
\* returned input, the line was dispatched and, when handled, recorded
_commandLineTurn(input) ==
  /\ pc = "loop" /\ state = PAUSED
  /\ line' = input
  /\ sigint' = FALSE
  /\ IF input = EndOfInput
     THEN /\ state' = EofState
          /\ pc' = "run"
          /\ res' = NoRes
          /\ UNCHANGED <<histate, nread, log, undumped, dumped>>
     ELSE /\ nread' = nread + 1
          /\ pc' = "loop"
          /\ IF input[1] = NL
             THEN /\ IF histate # <<>>
                     THEN res' = _parse(state, cpu, Replayed(histate),
                                        Len(Replayed(histate)) - 1)
                     ELSE res' = NoRes
                  /\ log' = Append(log, [line |-> input, ret |-> -1])
                  /\ UNCHANGED histate
             ELSE /\ res' = _parse(state, cpu, input, Len(input) - 1)
                  /\ histate' = IF Recorded(res'.ret) THEN HistEnter(histate, input)
                                ELSE histate
                  /\ log' = Append(log, [line |-> input, ret |-> res'.ret])
          /\ state' = IF res' = NoRes THEN state ELSE res'.state
          /\ undumped' = IF Dumps(res'.out) THEN {} ELSE undumped
          /\ dumped' = IF Dumps(res'.out) THEN dumped \cup undumped ELSE dumped
  /\ UNCHANGED <<elbuf, elres, evtree, evres, cpu>>

\* the loop test finds the state not PAUSED: _commandLine returns
_commandLineReturn ==
  /\ pc = "loop" /\ state # PAUSED
  /\ pc' = "run"
  /\ sigint' = FALSE
  /\ UNCHANGED <<state, histate, nread, line, res, log, undumped, dumped, elbuf, elres, evtree, evres, cpu>>

\* the run loop finds the state EXITING or SHUTDOWN and ends
RunLoopExit ==
  /\ pc = "run" /\ state \in {EXITING, SHUTDOWN}
  /\ pc' = "done"
  /\ sigint' = FALSE
  /\ UNCHANGED <<state, histate, nread, line, res, log, undumped, dumped, elbuf, elres, evtree, evres, cpu>>

\* what the line source can deliver next: any line until MaxLines lines
\* were read, and the end of input at any time
Inputs == (IF nread < MaxLines THEN ConsoleLines ELSE {}) \cup {EndOfInput}

Console == \E input \in Inputs : _commandLineTurn(input)

Next ==
  \/ Attach
  \/ CpuEntry
  \/ _breakIntoDefault
  \/ _commandLineEnter
  \/ Console
  \/ _commandLineReturn
  \/ RunLoopExit

Spec == Init /\ [][Next]_vars

(***************************************************************************)
(* The same console on a line source of fewer distinct lines, with the     *)
(* debugger thread kept running: el_gets returns and handlers return, so   *)
(* no step of _commandLine stays enabled forever.                          *)
(***************************************************************************)
LiveLines == { <<"p", " ", "1", NL>>, <<"c", NL>>, <<"q", NL>> }

InputsLive == (IF nread < MaxLines THEN LiveLines ELSE {}) \cup {EndOfInput}

ConsoleLive == \E input \in InputsLive : _commandLineTurn(input)

NextLive ==
  \/ Attach
  \/ CpuEntry
  \/ _breakIntoDefault
  \/ _commandLineEnter
  \/ ConsoleLive
  \/ _commandLineReturn
  \/ RunLoopExit

SpecLive == Init /\ [][NextLive]_vars /\ WF_vars(ConsoleLive \/ _commandLineReturn)

(***************************************************************************)
(* The console alone, on a long line source: HistVariety lines of free     *)
(* choice, then one handled line repeated until the history list is full.  *)
(***************************************************************************)
HistFill == <<"p", " ", "1", NL>>

HistLines ==
  { <<"p", " ", "1", NL>>, <<"b", NL>>, <<"p", " ", "1", "/", "0", NL>>,
    <<"f", "o", "o", NL>>, <<"c", NL>>, BlankLine }

HistReads == HistSize + HistVariety + 1

InputsHist ==
  (IF nread < HistVariety THEN HistLines
   ELSE IF nread < HistReads THEN {HistFill} ELSE {})
  \cup {EndOfInput}

ConsoleHist == \E input \in InputsHist : _commandLineTurn(input)

NextHist ==
  \/ Attach
  \/ _commandLineEnter
  \/ ConsoleHist
  \/ _commandLineReturn
  \/ RunLoopExit

SpecHist == Init /\ [][NextHist]_vars

(***************************************************************************)
(* _parse on its own, over a wide set of lines.                            *)
(***************************************************************************)
InitParse ==
  /\ InitCommon
  /\ state = PAUSED
  /\ pc = "call"
  /\ line \in ParseLines
  /\ elbuf = <<>>
  /\ evtree = NoTree

ParseLine ==
  /\ pc = "call"
  /\ res' = _parse(state, cpu, line, Len(line) - 1)
  /\ state' = res'.state
  /\ pc' = "return"
  /\ UNCHANGED <<histate, nread, line, log, undumped, dumped, sigint, elbuf, elres, evtree, evres, cpu>>

NextParse == ParseLine

SpecParse == InitParse /\ [][NextParse]_vars

(***************************************************************************)
(* _tabComplete on its own, over the typed prefixes.                       *)
(***************************************************************************)
InitTab ==
  /\ InitCommon
  /\ state = PAUSED
  /\ pc = "tab"
  /\ line = NoLine
  /\ elbuf \in TabPrefixes
  /\ evtree = NoTree

TabKey ==
  /\ pc = "tab"
  /\ \E r \in _tabComplete(elbuf) : elres' = r
  /\ pc' = "tabbed"
  /\ UNCHANGED <<state, histate, nread, line, res, log, undumped, dumped, sigint, elbuf, evtree, evres, cpu>>

NextTab == TabKey

SpecTab == InitTab /\ [][NextTab]_vars

(***************************************************************************)
(* The evaluator on its own, over the parse trees of up to MaxOps          *)
(* operators whose leaves are numbers, identifiers and error tokens.       *)
(***************************************************************************)
LeafTokens ==
  { UintToken(Zero), UintToken(U(2)), UintToken(U32(W16 - 1, W16 - 1)),
    IdentifierToken, ErrorToken }

Node(c, lhs, rhs) == [token |-> OperatorToken(c), lhs |-> lhs, rhs |-> rhs]

\* the shapes of the trees of exactly n operators: <<>> is a leaf, <<l, r>>
\* an operator over the shapes l and r
RECURSIVE ShapesOf(_)
ShapesOf(n) ==
  IF n = 0 THEN {<<>>}
  ELSE UNION {{<<l, r>> : l \in ShapesOf(k), r \in ShapesOf(n - 1 - k)} : k \in 0..(n - 1)}

RECURSIVE OpsIn(_)
OpsIn(shape) == IF shape = <<>> THEN 0 ELSE 1 + OpsIn(shape[1]) + OpsIn(shape[2])

\* the tree of this shape whose operators are ops[o], ops[o + 1], ... root
\* first and left before right, and whose leaves are leaves[f], ... from
\* left to right
RECURSIVE TreeOf(_, _, _, _, _)
TreeOf(shape, ops, leaves, o, f) ==
  IF shape = <<>> THEN Leaf(leaves[f])
  ELSE LET n == OpsIn(shape[1])
       IN Node(ops[o], TreeOf(shape[1], ops, leaves, o + 1, f),
               TreeOf(shape[2], ops, leaves, o + 1 + n, f + n + 1))

InitEval ==
  /\ InitCommon
  /\ state = PAUSED
  /\ pc = "tree"
  /\ line = NoLine
  /\ elbuf = <<>>
  /\ \E n \in 0..MaxOps :
       \E shape \in ShapesOf(n), ops \in [1..n -> Operators],
          leaves \in [1..(n + 1) -> LeafTokens] :
            evtree = TreeOf(shape, ops, leaves, 1, 1)

\* dvTemp = { .type = DV_INT_TYPE }, then the tree is evaluated into it
Evaluate ==
  /\ pc = "tree"
  /\ evres' = EvaluateTree(evtree, "DV_INT_TYPE")
  /\ pc' = "evaluated"
  /\ UNCHANGED <<state, histate, nread, line, res, log, undumped, dumped, sigint,
                 elbuf, elres, evtree, cpu>>

NextEval == Evaluate

SpecEval == InitEval /\ [][NextEval]_vars

(***************************************************************************)
(* What the claims read off a line.                                        *)
(***************************************************************************)
\* the text before the first space, or before the newline
VerbOf(ln) ==
  LET stops == {i \in DOMAIN ln : ln[i] \in {" ", NL}}
      first == CHOOSE i \in stops : \A j \in stops : i <= j
  IN SubSeq(ln, 1, first - 1)

HasArgText(ln) == \E i \in DOMAIN ln : ln[i] = " "

\* the text between the first space and the newline
ArgTextOf(ln) == SubSeq(ln, Len(VerbOf(ln)) + 2, Len(ln) - 1)

\* a text cut at its spaces
RECURSIVE SplitAtSpaces(_)
SplitAtSpaces(text) ==
  IF \A i \in DOMAIN text : text[i] # " " THEN <<text>>
  ELSE LET sp == CHOOSE i \in DOMAIN text :
                   text[i] = " " /\ \A j \in 1..(i - 1) : text[j] # " "
       IN <<SubSeq(text, 1, sp - 1)>> \o SplitAtSpaces(SubSeq(text, sp + 1, Len(text)))

\* evaluating one segment on its own fails: lex error, parse error,
\* identifier or division by zero
SegmentFails(seg) ==
  LET lx == lexExpression(seg, Len(seg))
      tree == parseLexedExpression(lx.lv)
  IN \/ lx.adjusted > Len(seg)
     \/ tree.token.type = "TOKEN_ERROR_TYPE"
     \/ _evaluateParseTree(tree, "DV_INT_TYPE").type = "DV_ERROR_TYPE"

\* some segment of the line's argument text fails; an empty last segment
\* (no text after the last space) is not evaluated
AnySegmentFails(ln) ==
  /\ HasArgText(ln)
  /\ LET segs == SplitAtSpaces(ArgTextOf(ln)) IN
     \E i \in DOMAIN segs : (i < Len(segs) \/ segs[i] # <<>>) /\ SegmentFails(segs[i])

SameIgnoringCase(a, b) ==
  Len(a) = Len(b) /\ \A i \in DOMAIN a : tolower(a[i]) = tolower(b[i])

\* the table entries whose name is the verb, case ignored
EntriesNamed(verb) ==
  {i \in 1..(Len(_debuggerCommands) - 1) : SameIgnoringCase(_debuggerCommands[i].name, verb)}

\* the names that start with a prefix, case ignored
NamesStartingWith(prefix) ==
  {nm \in CommandNames :
     Len(prefix) <= Len(nm) /\ SameIgnoringCase(SubSeq(nm, 1, Len(prefix)), prefix)}

ParseError == <<Out("Parse error", <<>>)>>
CommandNotFound == <<Out("Command not found", <<>>)>>

\* _parse returned 0 after printing message, and no handler ran
Refused(message) ==
  /\ res.out = message
  /\ res.ret = 0
  /\ res.command = "none"
  /\ res.calls = <<>>

(***************************************************************************)
(* C1: when evaluating any segment of the argument text fails, _DVParse    *)
(* returns a list whose head is ERROR, _parse prints "Parse error",        *)
(* returns 0 and invokes no handler; every handler that is invoked gets a  *)
(* list that is empty or holds INT nodes only.                             *)
(***************************************************************************)
C1_FailedSegmentRefusesLine ==
  pc = "return" =>
    /\ AnySegmentFails(line) =>
          /\ ParseArgs(line, Len(line) - 1) # <<>>
          /\ ParseArgs(line, Len(line) - 1)[1].type = "DV_ERROR_TYPE"
          /\ Refused(ParseError)
    /\ res.command # "none" =>
          \A i \in DOMAIN res.dv : res.dv[i].type = "DV_INT_TYPE"

\* print 1 2/0 3: the second of three segments fails
C1_Witness ==
  /\ pc = "return"
  /\ line = <<"p", "r", "i", "n", "t", " ", "1", " ", "2", "/", "0", " ", "3", NL>>
  /\ Refused(ParseError)

(***************************************************************************)
(* C2, as stated: a handler is invoked if and only if some table entry has *)
(* the verb's length and equals it ignoring case; a verb that is only a    *)
(* proper prefix of a name, or empty, prints "Command not found" and       *)
(* returns 0 without invoking a handler.                                   *)
(***************************************************************************)
OnlyProperPrefix(verb) ==
  EntriesNamed(verb) = {} /\ NamesStartingWith(verb) # {}

C2_AsStated ==
  pc = "return" =>
    /\ res.command # "none" <=> EntriesNamed(VerbOf(line)) # {}
    /\ OnlyProperPrefix(VerbOf(line)) => Refused(CommandNotFound)

(***************************************************************************)
(* C2, amended: the lookup is reached only when no segment of the          *)
(* argument text fails.  Then a handler is invoked if and only if some     *)
(* table entry has the verb's length and equals it ignoring case, and it   *)
(* is that entry's handler; a verb that is only a proper prefix of a name, *)
(* or empty, prints "Command not found" and returns 0 without invoking a   *)
(* handler.  When a segment fails no handler is invoked, whatever the verb.*)
(***************************************************************************)
C2_ExactLookup ==
  pc = "return" =>
    /\ res.command # "none" <=>
          (EntriesNamed(VerbOf(line)) # {} /\ ~AnySegmentFails(line))
    /\ res.command # "none" =>
          \E i \in EntriesNamed(VerbOf(line)) : _debuggerCommands[i].command = res.command
    /\ (OnlyProperPrefix(VerbOf(line)) /\ ~AnySegmentFails(line)) => Refused(CommandNotFound)

\* pr: a proper prefix of print and print/x, no entry of its own
C2_Witness ==
  /\ pc = "return"
  /\ line = <<"p", "r", NL>>
  /\ Refused(CommandNotFound)

(***************************************************************************)
(* C5: when two or more command names start with the typed prefix,         *)
(* _tabComplete inserts nothing and reports no-match; when exactly one     *)
(* does, it inserts the remaining characters of that name and one space.   *)
(***************************************************************************)
C5_CompletesOnlyUnambiguousPrefix ==
  pc = "tabbed" =>
    LET names == NamesStartingWith(elbuf) IN
    /\ Cardinality(names) >= 2 =>
          elres.ret = "CC_ERROR" /\ elres.inserted = <<>>
    /\ Cardinality(names) = 1 =>
          LET nm == CHOOSE n \in names : TRUE IN
          /\ elres.ret = "CC_REDISPLAY"
          /\ elres.inserted = SubSeq(nm, Len(elbuf) + 1, Len(nm)) \o <<" ">>

\* br becomes break and a space
C5_Witness ==
  /\ pc = "tabbed"
  /\ elbuf = <<"b", "r">>
  /\ elres.ret = "CC_REDISPLAY"
  /\ elres.inserted = <<"e", "a", "k", " ">>

(***************************************************************************)
(* C6: for a typed prefix that no command name starts with, _tabComplete   *)
(* reports no-match, inserts nothing, and never reads the table past its   *)
(* terminating entry nor dereferences a null name.                         *)
(***************************************************************************)
C6_NoMatchStaysInTable ==
  (pc = "tabbed" /\ NamesStartingWith(elbuf) = {}) =>
    /\ elres.ret = "CC_ERROR"
    /\ elres.inserted = <<>>
    /\ ~elres.oob

(***************************************************************************)
(* What the claims read off the console loop.                              *)
(***************************************************************************)
\* a line that is dispatched to a handler: its verb is a name of the table
\* and no segment of its argument text fails
Handled(ln) ==
  /\ ln # BlankLine
  /\ EntriesNamed(VerbOf(ln)) # {}
  /\ ~AnySegmentFails(ln)

\* the non-blank lines of the log for which _parse returned 1, in input order
RECURSIVE LinesReturning1(_)
LinesReturning1(l) ==
  IF l = <<>> THEN <<>>
  ELSE IF l[1].ret = 1 THEN <<l[1].line>> \o LinesReturning1(Tail(l))
  ELSE LinesReturning1(Tail(l))

\* the last n elements of a sequence
LastN(q, n) == IF Len(q) <= n THEN q ELSE SubSeq(q, Len(q) - n + 1, Len(q))

\* a step that reads a line and dispatches it (or replays on a blank line)
ReadStep == nread' = nread + 1

\* the step on which el_gets reports the end of input
EofStep == pc = "loop" /\ line' = EndOfInput /\ nread' = nread /\ pc' = "run"

(***************************************************************************)
(* C3: a blank line re-executes exactly the most recent line read before   *)
(* it that was handled (verb recognized and arguments parsed), and does    *)
(* nothing when there is none; a line that ended in "Parse error" or       *)
(* "Command not found" is never the one replayed.                          *)
(***************************************************************************)
C3_BlankLineReplaysLastHandled ==
  line = BlankLine =>
    LET earlier == {i \in 1..(Len(log) - 1) : Handled(log[i].line)}
        last == CHOOSE i \in earlier : \A j \in earlier : j <= i
    IN IF earlier = {} THEN res = NoRes
       ELSE res = _parse(PAUSED, cpu, log[last].line, Len(log[last].line) - 1)

\* p 1, then foo, then a blank line: p 1 is run again, foo is not
C3_Witness ==
  /\ line = BlankLine
  /\ Len(log) = 3
  /\ log[1].line = <<"p", " ", "1", NL>>
  /\ log[2].line = <<"f", "o", "o", NL>>
  /\ res.command = "_print"
  /\ res.out = <<Out("%u", <<U(1)>>)>>

(***************************************************************************)
(* C4, as stated: the history holds, in input order, exactly the non-blank *)
(* lines for which _parse returned 1, "Arguments missing" lines included;  *)
(* "Parse error" and "Command not found" lines are not recorded and a      *)
(* blank-line replay appends nothing.                                      *)
(***************************************************************************)
C4_AsStated == histate = LinesReturning1(log)

(***************************************************************************)
(* C4, amended: the history is set up with room for 200 entries, so it     *)
(* holds, in input order, the most recent 200 of the non-blank lines for   *)
(* which _parse returned 1 (all of them while there are at most 200);      *)
(* these are the lines whose verb is recognized and whose arguments parse, *)
(* "Arguments missing" lines included; "Parse error" and "Command not      *)
(* found" lines are not recorded and a blank-line replay appends nothing.  *)
(* (Each line is judged in the state reached by reading it.)               *)
(***************************************************************************)
C4_HistoryKeepsNewestHandled ==
  /\ histate = LastN(LinesReturning1(log), HistSize)
  /\ log # <<>> =>
       LET newest == log[Len(log)] IN
       /\ newest.line = BlankLine => newest.ret = -1
       /\ newest.line # BlankLine => (newest.ret = 1 <=> Handled(newest.line))

\* b (Arguments missing) was recorded first and has been dropped since
C4_Witness ==
  /\ Len(LinesReturning1(log)) > HistSize
  /\ Len(histate) = HistSize
  /\ log[1] = [line |-> <<"b", NL>>, ret |-> 1]
  /\ log[2].line = BlankLine
  /\ histate[1] = HistFill

(***************************************************************************)
(* C7, as stated: the loop reads a line only while the state is PAUSED; a  *)
(* handled continue sets RUNNING, a handled quit sets SHUTDOWN, and after  *)
(* either no further line is read or dispatched in that loop entry.        *)
(***************************************************************************)
LeavesLoop == res.command \in {"_continue", "_quit"}

C7_AsStated ==
  [][/\ ReadStep => state = PAUSED
     /\ (pc = "loop" /\ LeavesLoop) => ~ReadStep]_vars

(***************************************************************************)
(* C7, amended: the loop reads a line only while the state is PAUSED; a    *)
(* handled continue sets RUNNING and a handled quit sets SHUTDOWN, also    *)
(* through a blank-line replay, and _commandLine then returns without      *)
(* reading or dispatching a further line in that loop entry unless the     *)
(* SIGINT handler sets the state back to PAUSED before the loop tests it:  *)
(* then the loop reads on.                                                 *)
(***************************************************************************)
C7_ReadsOnlyWhilePaused ==
  [][/\ ReadStep => state = PAUSED
     /\ (ReadStep /\ res'.command = "_continue") => state' = RUNNING
     /\ (ReadStep /\ res'.command = "_quit") => state' = SHUTDOWN
     /\ (pc = "loop" /\ LeavesLoop /\ ~sigint) =>
          /\ state \in {RUNNING, SHUTDOWN}
          /\ ~ReadStep
          /\ pc' = "loop" \/ (pc' = "run" /\ line' = line /\ res' = res)
     /\ (pc = "loop" /\ LeavesLoop /\ ReadStep) => sigint]_vars

\* c run through a blank-line replay: the loop returned with RUNNING
C7_Witness ==
  /\ pc = "run"
  /\ state = RUNNING
  /\ line = BlankLine
  /\ res.command = "_continue"
  /\ ~sigint

(***************************************************************************)
(* C8: once the state is SHUTDOWN or EXITING, no later step moves it to    *)
(* PAUSED or RUNNING and no further line is read or dispatched, under      *)
(* every interleaving with the SIGINT handler.                             *)
(***************************************************************************)
C8_ShutdownAndExitingAreTerminal ==
  [][(state \in {SHUTDOWN, EXITING}) =>
       (state' \notin {PAUSED, RUNNING} /\ ~ReadStep)]_vars

(***************************************************************************)
(* C9: when the line source reports end-of-input while the loop is PAUSED, *)
(* the state becomes EXITING and _commandLine returns without dispatching  *)
(* anything and without touching history; the loop returns only with the   *)
(* state RUNNING, SHUTDOWN or EXITING, and for a finite line source every  *)
(* loop entry eventually returns.                                          *)
(***************************************************************************)
C9_EndOfInputExits ==
  /\ [][/\ EofStep =>
             /\ state = PAUSED /\ state' = EXITING
             /\ res' = NoRes
             /\ histate' = histate /\ log' = log
        /\ (pc = "loop" /\ pc' = "run") => state' \in {RUNNING, SHUTDOWN, EXITING}]_vars
  /\ (pc = "loop") ~> (pc = "run" /\ state \in {RUNNING, SHUTDOWN, EXITING})

\* the end of input after a handled line: EXITING, history as it was
C9_Witness ==
  /\ pc = "run"
  /\ line = EndOfInput
  /\ state = EXITING
  /\ res = NoRes
  /\ histate = <<<<"p", " ", "1", NL>>>>

(***************************************************************************)
(* C10, as stated: every entry event is announced by its one fixed line    *)
(* (BREAKPOINT, WATCHPOINT, ILLEGAL_OP) or by silence (MANUAL, ATTACHED),  *)
(* and every entry event, a manual interrupt delivered while the console   *)
(* loop is running included, is followed by a full status dump before the  *)
(* next line is read.                                                      *)
(***************************************************************************)
Announcement(e) ==
  CASE e.reason = "DEBUGGER_ENTER_BREAKPOINT" -> e.out = <<"Hit breakpoint">>
    [] e.reason = "DEBUGGER_ENTER_WATCHPOINT" -> e.out = <<"Hit watchpoint">>
    [] e.reason = "DEBUGGER_ENTER_ILLEGAL_OP" -> e.out = <<"Hit illegal opcode">>
    [] e.reason = "DEBUGGER_ENTER_MANUAL" -> e.out = <<>>
    [] e.reason = "DEBUGGER_ENTER_ATTACHED" -> e.out = <<>>

C10_AsStated ==
  [][/\ \A e \in undumped' : Announcement(e)
     /\ ReadStep => undumped = {}]_vars

(***************************************************************************)
(* C10, amended: every entry event is announced by its one fixed line      *)
(* (BREAKPOINT, WATCHPOINT, ILLEGAL_OP) or by silence (MANUAL, ATTACHED).  *)
(* The status is dumped once, when _commandLine is entered, so every entry *)
(* event delivered while the console loop is not running is followed by a  *)
(* full status dump before the next line is read; a manual interrupt       *)
(* delivered while the console loop is running (also just after it handled *)
(* continue) is followed by none: the loop reads the next line without it. *)
(***************************************************************************)
C10_EntryIsAnnouncedAndDumpedOnLoopEntry ==
  [][/\ \A e \in undumped' \cup dumped' : Announcement(e)
     /\ (pc = "run" /\ pc' = "loop") => (undumped' = {} /\ dumped' = undumped)
     /\ ReadStep =>
          \A e \in undumped : e.reason = "DEBUGGER_ENTER_MANUAL" /\ e.during = "loop"]_vars

\* a breakpoint was announced, the status was dumped on loop entry, and a
\* line has been read since
C10_Witness ==
  /\ pc = "loop"
  /\ line \notin {NoLine, EndOfInput}
  /\ \E e \in dumped :
       e.reason = "DEBUGGER_ENTER_BREAKPOINT" /\ e.out = <<"Hit breakpoint">>

(***************************************************************************)
(* C11: a turn of the loop that ends in "Parse error", "Command not found" *)
(* or "Arguments missing" leaves the run state PAUSED (continue 1/0 and    *)
(* quit a do not leave PAUSED), makes no call to the breakpoint,           *)
(* watchpoint, memory or run services, and the loop goes on to read the    *)
(* next line.                                                              *)
(***************************************************************************)
ArgumentsMissing == <<Out(ERROR_MISSING_ARGS, <<>>)>>

Complaints == {ParseError, CommandNotFound, ArgumentsMissing}

C11_ComplaintLeavesSessionAsItWas ==
  [][/\ (ReadStep /\ res'.out \in Complaints) =>
          /\ state = PAUSED /\ state' = PAUSED
          /\ res'.calls = <<>>
          /\ pc' = "loop"
     /\ (pc = "loop" /\ res.out \in Complaints) =>
          /\ state = PAUSED
          /\ pc' = "loop" \/ line' = EndOfInput]_vars

\* continue 1/0 was refused and the loop is about to read again
C11_Witness ==
  /\ pc = "loop"
  /\ state = PAUSED
  /\ line = <<"c", " ", "1", "/", "0", NL>>
  /\ res.out = ParseError
  /\ res.calls = <<>>

(***************************************************************************)
(* C12: each of break/b, delete/d, watch/w, rb, rh and rw, invoked with an *)
(* empty argument list, prints "Arguments missing" and makes no call;      *)
(* invoked with a list whose head is INT it makes exactly one call, to its *)
(* own operation (set breakpoint, clear breakpoint, set watchpoint, load   *)
(* byte, halfword, word), with the head's value as the address, whatever   *)
(* follows the head; a name and its alias behave the same.                 *)
(***************************************************************************)
AddressOperations ==
  { [names |-> {<<"b", "r", "e", "a", "k">>, <<"b">>}, op |-> "ARMDebuggerSetBreakpoint"],
    [names |-> {<<"d", "e", "l", "e", "t", "e">>, <<"d">>}, op |-> "ARMDebuggerClearBreakpoint"],
    [names |-> {<<"w", "a", "t", "c", "h">>, <<"w">>}, op |-> "ARMDebuggerSetWatchpoint"],
    [names |-> {<<"r", "b">>}, op |-> "loadU8"],
    [names |-> {<<"r", "h">>}, op |-> "loadU16"],
    [names |-> {<<"r", "w">>}, op |-> "load32"] }

C12_AddressCommandCallsOnceOrComplains ==
  pc = "return" =>
    \A a \in AddressOperations :
      ((\E nm \in a.names : SameIgnoringCase(nm, VerbOf(line))) /\ ~AnySegmentFails(line)) =>
         /\ res.command # "none"
         /\ IF res.dv = <<>>
            THEN res.out = ArgumentsMissing /\ res.calls = <<>>
            ELSE /\ res.dv[1].type = "DV_INT_TYPE"
                 /\ res.calls = <<Call(a.op, res.dv[1].intValue)>>
                 /\ Out(ERROR_MISSING_ARGS, <<>>) \notin Range(res.out)

\* Delete 0x1F 3: one call, clear breakpoint at 31, the 3 ignored
C12_Witness ==
  /\ pc = "return"
  /\ line = <<"D", "e", "l", "e", "t", "e", " ", "0", "x", "1", "F", " ", "3", NL>>
  /\ Len(res.dv) = 2
  /\ res.calls = <<Call("ARMDebuggerClearBreakpoint", U(31))>>

(***************************************************************************)
(* Reference arithmetic for the evaluator claims: 32-bit values as four    *)
(* base-256 digits, least significant first, worked by hand as on paper.   *)
(***************************************************************************)
Base256(a) == <<a.lo % 256, a.lo \div 256, a.hi % 256, a.hi \div 256>>

OfDigits(d) == U32(d[4] * 256 + d[3], d[2] * 256 + d[1])

\* column k of the long multiplication of x by y
Term(x, y, i, k) == IF (k - i) \in 0..3 THEN x[i + 1] * y[k - i + 1] ELSE 0

Column(x, y, k) == Term(x, y, 0, k) + Term(x, y, 1, k) + Term(x, y, 2, k) + Term(x, y, 3, k)

RECURSIVE Carried(_, _, _)
Carried(x, y, k) ==
  IF k = 0 THEN Column(x, y, 0) ELSE Column(x, y, k) + (Carried(x, y, k - 1) \div 256)

\* the full eight-digit product
LongProduct(x, y) == [k \in 1..8 |-> Carried(x, y, k - 1) % 256]

RECURSIVE AddStep(_, _, _)
AddStep(x, y, k) == x[k] + y[k] + (IF k = 1 THEN 0 ELSE AddStep(x, y, k - 1) \div 256)

\* x + y with the carry out of the top digit dropped
LongSum(x, y) == [k \in 1..4 |-> AddStep(x, y, k) % 256]

RECURSIVE SubStep(_, _, _)
SubStep(x, y, k) ==
  x[k] - y[k] - (IF k > 1 /\ SubStep(x, y, k - 1) < 0 THEN 1 ELSE 0)

\* x - y with the borrow out of the top digit dropped
LongDifference(x, y) == [k \in 1..4 |-> (SubStep(x, y, k) + 256) % 256]

LongLess(x, y) ==
  \E k \in 1..4 : x[k] < y[k] /\ \A j \in (k + 1)..4 : x[j] = y[j]

\* q is x divided by y, rounded towards zero: q * y fits in four digits and
\* does not exceed x, and what is left of x is less than y
IsQuotient(q, x, y) ==
  LET w == LongProduct(q, y)
      low == [k \in 1..4 |-> w[k]]
  IN /\ \A k \in 5..8 : w[k] = 0
     /\ ~LongLess(x, low)
     /\ LongLess(LongDifference(x, low), y)

IsLeaf(tree) == tree.token.type # "TOKEN_OPERATOR_TYPE"

RECURSIVE OnlyNumbers(_)
OnlyNumbers(tree) ==
  IF IsLeaf(tree) THEN tree.token.type = "TOKEN_UINT_TYPE"
  ELSE OnlyNumbers(tree.lhs) /\ OnlyNumbers(tree.rhs)

ValueOf(tree) == _evaluateParseTree(tree, "DV_INT_TYPE").value

DividesByZero(tree) ==
  /\ ~IsLeaf(tree)
  /\ tree.token.operatorValue = "OP_DIVIDE"
  /\ ValueOf(tree.rhs) = Zero

RECURSIVE SomeZeroDivisor(_)
SomeZeroDivisor(tree) ==
  /\ ~IsLeaf(tree)
  /\ \/ DividesByZero(tree)
     \/ SomeZeroDivisor(tree.lhs)
     \/ SomeZeroDivisor(tree.rhs)

\* the root of the tree combines the values of its two subtrees as the
\* arithmetic of unsigned 32-bit numbers says
RootIsExact(tree, value) ==
  IF IsLeaf(tree) THEN value = tree.token.uintValue
  ELSE LET op == tree.token.operatorValue
           x == Base256(ValueOf(tree.lhs))
           y == Base256(ValueOf(tree.rhs))
       IN CASE op = "OP_ASSIGN" -> Base256(value) = y
            [] op = "OP_ADD" -> Base256(value) = LongSum(x, y)
            [] op = "OP_SUBTRACT" -> Base256(value) = LongDifference(x, y)
            [] op = "OP_MULTIPLY" -> Base256(value) = [k \in 1..4 |-> LongProduct(x, y)[k]]
            [] op = "OP_DIVIDE" -> IsQuotient(Base256(value), x, y)

(***************************************************************************)
(* C13: a tree whose leaves are all numbers and in which no division has a *)
(* zero divisor evaluates to what unsigned 32-bit arithmetic gives:        *)
(* assignment yields its right operand, sum, difference and product wrap   *)
(* modulo 2^32, division rounds towards zero; the error flag stays clear.  *)
(* (Every subtree of a tree is itself one of the trees evaluated, so the   *)
(* statement about the root of each tree is the statement about each       *)
(* node.)                                                                  *)
(***************************************************************************)
C13_NumbersEvaluateAsUnsigned32 ==
  (pc = "evaluated" /\ OnlyNumbers(evtree) /\ ~SomeZeroDivisor(evtree)) =>
     /\ evres.type = "DV_INT_TYPE"
     /\ RootIsExact(evtree, evres.value)

\* 0 - 2 * 0xFFFFFFFF is 2
C13_Witness ==
  /\ pc = "evaluated"
  /\ evtree = Node("-", Leaf(UintToken(Zero)),
                   Node("*", Leaf(UintToken(U(2))), Leaf(UintToken(U32(W16 - 1, W16 - 1)))))
  /\ evres = [value |-> U(2), type |-> "DV_INT_TYPE"]

RECURSIVE SomeBadLeaf(_)
SomeBadLeaf(tree) ==
  IF IsLeaf(tree) THEN tree.token.type \in {"TOKEN_IDENTIFIER_TYPE", "TOKEN_ERROR_TYPE"}
  ELSE SomeBadLeaf(tree.lhs) \/ SomeBadLeaf(tree.rhs)

(***************************************************************************)
(* C14: a tree that holds, at any depth and on either side, a division by  *)
(* zero, an identifier leaf or an error leaf is evaluated with the error   *)
(* flag set at the end: nothing evaluated after the flag was set clears    *)
(* it.                                                                     *)
(***************************************************************************)
C14_ErrorFlagSticks ==
  (pc = "evaluated" /\ (SomeZeroDivisor(evtree) \/ SomeBadLeaf(evtree))) =>
     evres.type = "DV_ERROR_TYPE"

\* 2 / 0 + 2: the division fails first, the sum is still worked out
C14_Witness ==
  /\ pc = "evaluated"
  /\ evtree = Node("+", Node("/", Leaf(UintToken(U(2))), Leaf(UintToken(Zero))),
                   Leaf(UintToken(U(2))))
  /\ evres = [value |-> U(2), type |-> "DV_ERROR_TYPE"]

NextNames == {<<"n", "e", "x", "t">>, <<"n">>}

(***************************************************************************)
(* C15: a line naming next or n, whatever its arguments, makes the handler *)
(* step the CPU exactly once and then print the full status exactly once,  *)
(* in that order and nothing else; the handler does not write the run      *)
(* state, so the session is PAUSED before and after and the loop goes on   *)
(* to read the next line.  The same holds when a blank line replays it.    *)
(***************************************************************************)
C15_NextStepsOnceThenPrintsStatus ==
  [][/\ (/\ ReadStep
         /\ \E nm \in NextNames : SameIgnoringCase(nm, VerbOf(line'))
         /\ ~AnySegmentFails(line')) => res'.command = "_next"
     /\ (ReadStep /\ res'.command = "_next") =>
          /\ res'.trace = Mallocs(res'.dv)
                            \o <<Enter("_next"), Call("ARMRun", Zero), StatusDump, Leave("_next")>>
                            \o _DVFree(res'.dv)
          /\ state = PAUSED /\ state' = PAUSED
          /\ pc' = "loop"
     /\ (pc = "loop" /\ res.command = "_next") =>
          /\ state = PAUSED
          /\ pc' = "loop" \/ line' = EndOfInput]_vars

\* n, then a blank line that steps again
C15_Witness ==
  /\ pc = "loop" /\ state = PAUSED
  /\ nread = 2
  /\ log[1].line = <<"n", NL>>
  /\ line = BlankLine
  /\ res.command = "_next"
  /\ res.calls = <<Call("ARMRun", Zero)>>
  /\ res.out = <<StatusDump>>

\* the positions in a trace of the events of one kind about node i
PositionsOf(trace, kind, i) ==
  {j \in DOMAIN trace : trace[j].kind = kind /\ trace[j].v = i}

PositionsOfKind(trace, kind) == {j \in DOMAIN trace : trace[j].kind = kind}

(***************************************************************************)
(* C16: whichever way _parse returns (parse error, handler invoked,        *)
(* command not found), every node allocated for the argument sequence is   *)
(* freed exactly once, after it was allocated and, when a handler ran,     *)
(* after the handler returned; nothing else is freed and no node is left   *)
(* allocated.  The nodes allocated are those of the sequence the handler   *)
(* was given.                                                              *)
(***************************************************************************)
C16_EveryNodeFreedOnce ==
  pc = "return" =>
    LET trace == res.trace
        nodes == {trace[j].v : j \in PositionsOfKind(trace, "malloc")}
        freed == {trace[j].v : j \in PositionsOfKind(trace, "free")}
    IN /\ res.ret \in {0, 1}
       /\ freed = nodes
       /\ res.ret = 1 => nodes = DOMAIN res.dv
       /\ \A i \in nodes :
            /\ Cardinality(PositionsOf(trace, "malloc", i)) = 1
            /\ Cardinality(PositionsOf(trace, "free", i)) = 1
            /\ \A m \in PositionsOf(trace, "malloc", i), f \in PositionsOf(trace, "free", i) :
                 /\ m < f
                 /\ \A h \in PositionsOfKind(trace, "invoke") \cup PositionsOfKind(trace, "return") :
                      m < h /\ h < f

\* a handler given three nodes, which are freed in order once it is back
C16_Witness ==
  /\ pc = "return"
  /\ res.ret = 1
  /\ Len(res.dv) = 3
  /\ SubSeq(res.trace, Len(res.trace) - 3, Len(res.trace))
       = <<Leave(res.command), Free(1), Free(2), Free(3)>>

\* the value of a segment that evaluates
SegmentValue(seg) ==
  _evaluateParseTree(parseLexedExpression(lexExpression(seg, Len(seg)).lv), "DV_INT_TYPE").value

\* the line has a space after its verb and nothing between its last space
\* and its end
EndsInSpace(ln) == Len(ln) >= 2 /\ ln[Len(ln) - 1] = " "

(***************************************************************************)
(* C17: an argument text of length zero is an empty sequence, not an       *)
(* error.  A line that ends in a space after a known verb reaches the      *)
(* handler with the values of the segments before that space (none for     *)
(* `break `, the value 1 for `print 1 `), and no line fails with "Parse    *)
(* error" because of the trailing space: when no segment before it fails,  *)
(* "Parse error" is not printed, whatever the verb.                        *)
(***************************************************************************)
C17_NoTextIsAnEmptySequence ==
  (pc = "return" /\ EndsInSpace(line) /\ ~AnySegmentFails(line)) =>
     LET segs == SplitAtSpaces(ArgTextOf(line)) IN
     /\ res.out # ParseError
     /\ segs[Len(segs)] = <<>>
     /\ EntriesNamed(VerbOf(line)) # {} =>
          /\ res.ret = 1
          /\ res.command # "none"
          /\ res.dv = [i \in 1..(Len(segs) - 1) |-> DVNode("DV_INT_TYPE", SegmentValue(segs[i]))]

\* print 1 and a space: the handler prints the one value
C17_Witness ==
  /\ pc = "return"
  /\ line = <<"p", "r", "i", "n", "t", " ", "1", " ", NL>>
  /\ res.command = "_print"
  /\ res.dv = <<DVNode("DV_INT_TYPE", U(1))>>
  /\ res.out = <<Out("%u", <<U(1)>>)>>

DisassembleNames == {<<"d", "i", "s", "a", "s", "m">>, <<"d", "i", "s">>}

(***************************************************************************)
(* C18: disasm or dis with an address and a count prints exactly count     *)
(* lines, at the address and on from it in steps of the instruction width  *)
(* modulo 2^32, for every unsigned 32-bit count, those of 2^31 and more    *)
(* included; with no argument it prints one line at the program counter    *)
(* less one instruction width, with an address only one line at that       *)
(* address.  (The lines printed are recorded as the first address, their   *)
(* number and the step.)                                                   *)
(***************************************************************************)
C18_DisassemblesCountLines ==
  (/\ pc = "return"
   /\ \E nm \in DisassembleNames : SameIgnoringCase(nm, VerbOf(line))
   /\ ~AnySegmentFails(line)) =>
     LET w == IF cpu.executionMode = "MODE_ARM" THEN U(4) ELSE U(2)
         address == IF Len(res.dv) >= 1 THEN res.dv[1].intValue ELSE u32sub(cpu.pc, w)
         count == IF Len(res.dv) >= 2 THEN res.dv[2].intValue ELSE U(1)
     IN /\ res.command = "_disassemble"
        /\ res.out = <<Out("disassembly", <<address, count, w>>)>>

\* what the process may have installed for SIGTRAP before the command
Dispositions == {"SIG_DFL", "SIG_IGN", "a handler of the embedding program"}

\* The calls of a trace acted out on the SIGTRAP disposition: handler is
\* what is installed, osa what the first sigaction saved, under the
\* handlers installed at each raise.  sigaction(sig, act, oact) stores the
\* current disposition in oact when oact is given, then installs act.
RECURSIVE SigTrapAfter(_, _)
SigTrapAfter(d, calls) ==
  IF calls = <<>> THEN d
  ELSE LET c == calls[1] IN
       SigTrapAfter(
         CASE c.k = "sigaction" ->
                [handler |-> IF c.v[2] = "osa" THEN d.osa ELSE c.v[2],
                 osa |-> IF c.v[3] = "osa" THEN d.handler ELSE d.osa,
                 under |-> d.under]
           [] c.k = "kill" ->
                [d EXCEPT !.under = Append(d.under, d.handler)]
           [] OTHER -> d,
         Tail(calls))

(***************************************************************************)
(* C19: the command x installs the fallback handler for SIGTRAP, saving    *)
(* the one installed before, then raises SIGTRAP, then puts the saved      *)
(* handler back, in this order and with no other call; so the trap is      *)
(* raised once and only while the fallback is installed, whatever was      *)
(* installed before is installed again afterwards, and the run state is    *)
(* the one the command found.                                              *)
(***************************************************************************)
C19_BreakInInstallsRaisesRestores ==
  [][(res'.command = "_breakInto") =>
       /\ res'.calls = <<Call("sigaction", <<"SIGTRAP", "_handleDeath", "osa">>),
                         Call("kill", <<"SIGTRAP">>),
                         Call("sigaction", <<"SIGTRAP", "osa", "0">>)>>
       /\ \A prior \in Dispositions :
            LET after == SigTrapAfter([handler |-> prior, osa |-> "unset", under |-> <<>>],
                                      res'.calls)
            IN /\ after.under = <<"_handleDeath">>
               /\ after.handler = prior
       /\ state' = state]_vars

\* x was dispatched: three calls, and the fallback ran in between
C19_Witness ==
  /\ pc = "return"
  /\ line = <<"x", NL>>
  /\ res.command = "_breakInto"
  /\ Len(res.calls) = 3
  /\ res.out = _handleDeath
  /\ state = PAUSED

=============================================================================
